---- MODULE Spec2Model ----
(***************************************************************************)
(* Model of the StudentCompanion model-training scripts:                   *)
(*   - the BIO entity taggers (tag_grades.py, tag_event_reminder.py,       *)
(*     tag_scheduled_event.py): tokenize and tag_tokens over the three     *)
(*     pattern registries;                                                 *)
(*   - the intent extractor of multiwoz_processor.py;                      *)
(*   - the letter-grade corrector of validate_entities.py;                 *)
(*   - the data stage of multiwoz_processor.py (loading, the loop over     *)
(*     the dialogues, the split, the two data files) and its fallback      *)
(*     process_with_local_data;                                            *)
(*   - the training stage of train_model.py (its inputs, its output files  *)
(*     and the CoreML conversion with its pickle fallback).                *)
(* Python strings are TLA+ strings; offsets are 0-based as in Python, so   *)
(* the character at offset p of s is SubSeq(s, p + 1, p + 1).              *)
(***************************************************************************)
EXTENDS Integers, Sequences, FiniteSets, TLC

VARIABLES
    script,       \* which tagging script runs: "grades", "reminder", "scheduled"
    text,         \* item["text"] of the item being tagged
    tokens,       \* tokens = tokenize(item["text"])
    token_spans,  \* tag_tokens: token_spans
    tags,         \* tag_tokens: tags
    li,           \* tag_tokens: number of registry entries whose loop has started
    matches,      \* tag_tokens: the matches of re.finditer for registry entry li
    mi,           \* tag_tokens: number of matches of that entry already processed
    pc,           \* position of the tagging script
    acts,         \* extract_intent...: the argument raw_dialog_acts_list
    intent,       \* extract_intent...: the value returned (or the error raised)
    ipc,          \* position of the call of the intent extractor
    entry,        \* adjust_letter_grades: the dict passed as entry
    entry0,       \* the value of that dict before the first call
    out1,         \* what adjust_letter_grades(entry) returned
    out2,         \* what adjust_letter_grades applied to that result returned
    cpc,          \* position of the corrector
    dataset,      \* what load_dataset does: it raises, or the 'train' dialogues
    dialogue_idx, \* process_multiwoz...: number of dialogues the loop has taken
    training_data,\* process_multiwoz...: the samples extracted so far
    all_samples,  \* the list handed to train_test_split
    split,        \* how the split was made and the sizes of its two parts
    ppc,          \* position of the data stage
    perror,       \* the exception that ended the data stage, "" if none
    sklearn_version, \* sklearn.__version__
    ct_version,   \* ct.__version__, or that coremltools has no such attribute
    lib,          \* which library calls of the training stage raise
    conv_error,   \* str(e) of the exception caught around the conversion
    tpc,          \* position of the training stage
    terror,       \* the exception that ended the training stage, "" if none
    disk          \* the files of the working directory

taggerVars == <<script, text, tokens, token_spans, tags, li, matches, mi, pc>>

intentVars == <<acts, intent, ipc>>

correctorVars == <<entry, entry0, out1, out2, cpc>>

processorVars == <<dataset, dialogue_idx, training_data, all_samples, split, ppc, perror>>

trainerVars == <<sklearn_version, ct_version, lib, conv_error, tpc, terror>>

\* the two pipeline stages and the directory they work in
pipelineVars == <<processorVars, trainerVars, disk>>

(***************************************************************************)
(* Characters and character classes of Python's re (str patterns).         *)
(***************************************************************************)
LowerOf ==
    [A |-> "a", B |-> "b", C |-> "c", D |-> "d", E |-> "e", F |-> "f", G |-> "g",
     H |-> "h", I |-> "i", J |-> "j", K |-> "k", L |-> "l", M |-> "m", N |-> "n",
     O |-> "o", P |-> "p", Q |-> "q", R |-> "r", S |-> "s", T |-> "t", U |-> "u",
     V |-> "v", W |-> "w", X |-> "x", Y |-> "y", Z |-> "z"]

UpperChars == DOMAIN LowerOf

LowerChars == {LowerOf[c] : c \in UpperChars}

DigitChars == {"0", "1", "2", "3", "4", "5", "6", "7", "8", "9"}

\* \w : letters, digits and the underscore
WordChars == UpperChars \cup LowerChars \cup DigitChars \cup {"_"}

\* \s : whitespace
SpaceChars == {" ", "\t", "\n", "\r", "\f"}

\* str.lower() on one character
LowerChar(c) == IF c \in UpperChars THEN LowerOf[c] ELSE c

RECURSIVE lower(_)
\* str.lower()
lower(s) == IF s = "" THEN "" ELSE LowerChar(SubSeq(s, 1, 1)) \o lower(SubSeq(s, 2, Len(s)))

\* comparison key of a string under re.IGNORECASE (ic) or without it
Fold(s, ic) == IF ic THEN lower(s) ELSE s

CharAt(s, p) == SubSeq(s, p + 1, p + 1)

IsWordAt(s, p) == p >= 0 /\ p < Len(s) /\ CharAt(s, p) \in WordChars

\* \b : exactly one side of offset p is a word character
WordBoundary(s, p) == IsWordAt(s, p - 1) # IsWordAt(s, p)

InClass(k, c) ==
    CASE k = "w" -> c \in WordChars
      [] k = "d" -> c \in DigitChars
      [] k = "s" -> c \in SpaceChars
      [] k = "punct" -> c \notin WordChars /\ c \notin SpaceChars   \* [^\w\s]

(***************************************************************************)
(* Regular expressions as syntax trees.                                    *)
(***************************************************************************)
Lit(s) == [op |-> "lit", s |-> s]
Cls(k) == [op |-> "cls", k |-> k]
Set(cs) == [op |-> "set", cs |-> cs]
Cat(rs) == [op |-> "cat", rs |-> rs]
Alt(rs) == [op |-> "alt", rs |-> rs]
Rep(r, lo, hi) == [op |-> "rep", r |-> r, lo |-> lo, hi |-> hi, unb |-> FALSE]
Plus(r) == [op |-> "rep", r |-> r, lo |-> 1, hi |-> 1, unb |-> TRUE]
Star(r) == [op |-> "rep", r |-> r, lo |-> 0, hi |-> 0, unb |-> TRUE]
Opt(r) == Rep(r, 0, 1)
WB == [op |-> "wb"]
Ahead(r) == [op |-> "ahead", r |-> r]
Behind(s) == [op |-> "behind", s |-> s]
Words(ws) == Alt([i \in DOMAIN ws |-> Lit(ws[i])])

(***************************************************************************)
(* The backtracking matcher: Ends(r, s, pos, ic) is the sequence of end    *)
(* offsets of the matches of r that start at offset pos of s, in the order *)
(* in which the backtracking engine tries them (alternatives left to       *)
(* right, repetitions greedy).  The first one is the match re reports.     *)
(***************************************************************************)
RECURSIVE Ends(_, _, _, _), CatEnds(_, _, _, _, _), CatChain(_, _, _, _, _),
          AltEnds(_, _, _, _, _), RepEnds(_, _, _, _, _), RepChain(_, _, _, _, _)

Ends(r, s, pos, ic) ==
    CASE r.op = "lit" ->
            IF pos + Len(r.s) <= Len(s)
               /\ Fold(SubSeq(s, pos + 1, pos + Len(r.s)), ic) = Fold(r.s, ic)
            THEN <<pos + Len(r.s)>> ELSE <<>>
      [] r.op = "cls" ->
            IF pos < Len(s) /\ InClass(r.k, CharAt(s, pos)) THEN <<pos + 1>> ELSE <<>>
      [] r.op = "set" ->
            IF pos < Len(s) /\ \E c \in r.cs : Fold(c, ic) = Fold(CharAt(s, pos), ic)
            THEN <<pos + 1>> ELSE <<>>
      [] r.op = "wb" -> IF WordBoundary(s, pos) THEN <<pos>> ELSE <<>>
      [] r.op = "ahead" -> IF Ends(r.r, s, pos, ic) # <<>> THEN <<pos>> ELSE <<>>
      [] r.op = "behind" ->
            IF pos >= Len(r.s) /\ Fold(SubSeq(s, pos - Len(r.s) + 1, pos), ic) = Fold(r.s, ic)
            THEN <<pos>> ELSE <<>>
      [] r.op = "cat" -> CatEnds(r.rs, 1, s, pos, ic)
      [] r.op = "alt" -> AltEnds(r.rs, 1, s, pos, ic)
      [] r.op = "rep" -> RepEnds(r, 0, s, pos, ic)

CatEnds(rs, k, s, pos, ic) ==
    IF k > Len(rs) THEN <<pos>>
    ELSE CatChain(Ends(rs[k], s, pos, ic), rs, k + 1, s, ic)

CatChain(es, rs, k, s, ic) ==
    IF es = <<>> THEN <<>>
    ELSE CatEnds(rs, k, s, Head(es), ic) \o CatChain(Tail(es), rs, k, s, ic)

AltEnds(rs, k, s, pos, ic) ==
    IF k > Len(rs) THEN <<>>
    ELSE Ends(rs[k], s, pos, ic) \o AltEnds(rs, k + 1, s, pos, ic)

\* greedy: one more iteration is tried before stopping; an iteration that
\* consumes nothing is not repeated
RepEnds(r, count, s, pos, ic) ==
    LET again == IF r.unb \/ count < r.hi
                 THEN RepChain(SelectSeq(Ends(r.r, s, pos, ic), LAMBDA e : e > pos),
                               r, count + 1, s, ic)
                 ELSE <<>>
        stop == IF count >= r.lo THEN <<pos>> ELSE <<>>
    IN again \o stop

RepChain(es, r, count, s, ic) ==
    IF es = <<>> THEN <<>>
    ELSE RepEnds(r, count, s, Head(es), ic) \o RepChain(Tail(es), r, count, s, ic)

RECURSIVE Scan(_, _, _, _)
\* the leftmost match at or after pos, then the scan continues after it
Scan(r, s, pos, ic) ==
    IF pos > Len(s) THEN <<>>
    ELSE LET es == Ends(r, s, pos, ic) IN
         IF es = <<>> THEN Scan(r, s, pos + 1, ic)
         ELSE <<<<pos, es[1]>>>> \o Scan(r, s, IF es[1] > pos THEN es[1] ELSE pos + 1, ic)

\* [(m.start(), m.end()) for m in re.finditer(r, s, flags)]
finditer(r, s, ic) == Scan(r, s, 0, ic)

\* re.findall(r, s) for a pattern without groups: the matched substrings
findall(r, s) ==
    LET ms == Scan(r, s, 0, FALSE) IN
    [i \in DOMAIN ms |-> SubSeq(s, ms[i][1] + 1, ms[i][2])]

\* pattern.search(s) is not None
search(r, s, ic) == Scan(r, s, 0, ic) # <<>>

(***************************************************************************)
(* The tokenizer pattern and the three pattern registries.  A registry is  *)
(* the dict in its insertion order.                                        *)
(***************************************************************************)
Digit == Cls("d")

\* a tokenizer pattern that lost its punctuation alternative: r'\b\w+\b'
tokenize_pattern_words == Cat(<<WB, Plus(Cls("w")), WB>>)

\* r'\b\w+\b|[^\w\s]' as written in tokenize
tokenize_pattern == Alt(<<Cat(<<WB, Plus(Cls("w")), WB>>), Cls("punct")>>)

\* a span pattern that splits on whitespace only: r'\S+'
token_spans_pattern_nonspace == Plus(Alt(<<Cls("w"), Cls("punct")>>))

\* r'\b\w+\b|[^\w\s]' as written in tag_tokens
token_spans_pattern == Alt(<<Cat(<<WB, Plus(Cls("w")), WB>>), Cls("punct")>>)

\* \d{1,3}(?:\.\d+)?
Number3 == Cat(<<Rep(Digit, 1, 3), Opt(Cat(<<Lit("."), Plus(Digit)>>))>>)

grade_keywords == <<
    [label |-> "SCORE_VALUE", pattern |->
        Cat(<<WB, Number3,
              Ahead(Cat(<<Star(Cls("s")), Words(<<"%", "percent", "/">>)>>))>>)],
    [label |-> "SCORE_UNIT", pattern |->
        Cat(<<WB, Words(<<"%", "percent", "/100">>), WB>>)],
    [label |-> "MAX_SCORE", pattern |-> Cat(<<Behind("/"), Plus(Digit)>>)],
    [label |-> "LETTER_GRADE", pattern |->
        Alt(<<Cat(<<WB, Set({"A", "B", "C", "D"}), Opt(Set({"+", "-"})), WB>>),
              Cat(<<Lit("F"), WB>>)>>)],
    [label |-> "WEIGHT_PERCENT", pattern |->
        Cat(<<WB, Number3, Star(Cls("s")), Words(<<"%", "percent">>), WB>>)],
    [label |-> "ASSIGNMENT", pattern |->
        Cat(<<WB, Words(<<"exam", "quiz", "test", "assignment", "midterm", "final",
                          "project", "presentation", "report", "paper", "portfolio",
                          "lab">>), WB>>)],
    [label |-> "COURSE_NAME", pattern |->
        Cat(<<WB, Words(<<"math", "chemistry", "biology", "physics", "history",
                          "english", "geography", "economics", "psychology",
                          "statistics", "art", "music", "philosophy", "sociology",
                          "engineering", "marketing", "finance", "law", "anthropology",
                          "astronomy", "computer science", "calc", "calculus", "logic",
                          "ethics", "business", "drama", "design", "neuroscience",
                          "journalism", "robotics", "nutrition", "algebra",
                          "geometry">>), WB>>)] >>

\* (min(?:ute)?s?|h(?:ours?)?|hrs?|days?)
DurationUnit ==
    Alt(<<Cat(<<Lit("min"), Opt(Lit("ute")), Opt(Lit("s"))>>),
          Cat(<<Lit("h"), Opt(Cat(<<Lit("our"), Opt(Lit("s"))>>))>>),
          Cat(<<Lit("hr"), Opt(Lit("s"))>>),
          Cat(<<Lit("day"), Opt(Lit("s"))>>)>>)

\* \b\d+\s*(min(?:ute)?s?|h(?:ours?)?|hrs?|days?)\s*(before|ahead|early)\b
RemOffsetPattern ==
    Cat(<<WB, Plus(Digit), Star(Cls("s")), DurationUnit, Star(Cls("s")),
          Words(<<"before", "ahead", "early">>), WB>>)

\* \d{1,2}(:\d{2})?\s*(am|pm)?
ClockTime ==
    Cat(<<Rep(Digit, 1, 2), Opt(Cat(<<Lit(":"), Rep(Digit, 2, 2)>>)), Star(Cls("s")),
          Opt(Words(<<"am", "pm">>))>>)

reminder_keywords == <<
    [label |-> "EVENT", pattern |->
        Cat(<<WB,
              Words(<<"remind me to", "go to", "hit", "attend", "join", "schedule",
                      "do", "complete", "submit", "finish", "start", "study for",
                      "review for", "call", "text", "email", "check on", "work on",
                      "meet with", "visit", "pay for", "return", "buy", "pick up",
                      "drop off", "message", "follow up with">>),
              Rep(Cat(<<Plus(Cls("s")), Opt(Cat(<<Lit("the"), Plus(Cls("s"))>>)),
                        Plus(Cls("w"))>>), 1, 5)>>)],
    [label |-> "DATE_ABS", pattern |->
        Alt(<<Cat(<<WB,
                    Alt(<<Cat(<<Lit("jan"), Opt(Lit("uary"))>>),
                          Cat(<<Lit("feb"), Opt(Lit("ruary"))>>),
                          Cat(<<Lit("mar"), Opt(Lit("ch"))>>),
                          Cat(<<Lit("apr"), Opt(Lit("il"))>>),
                          Lit("may"),
                          Cat(<<Lit("jun"), Opt(Lit("e"))>>),
                          Cat(<<Lit("jul"), Opt(Lit("y"))>>),
                          Cat(<<Lit("aug"), Opt(Lit("ust"))>>),
                          Cat(<<Lit("sep"), Opt(Cat(<<Lit("t"), Opt(Lit("ember"))>>))>>),
                          Cat(<<Lit("oct"), Opt(Lit("ober"))>>),
                          Cat(<<Lit("nov"), Opt(Lit("ember"))>>),
                          Cat(<<Lit("dec"), Opt(Lit("ember"))>>)>>),
                    Cat(<<Lit(" "), Rep(Digit, 1, 2)>>),
                    Opt(Cat(<<Opt(Lit(",")), Lit(" "), Rep(Digit, 4, 4)>>))>>),
              Cat(<<WB, Rep(Digit, 4, 4), Lit("-"), Rep(Digit, 2, 2), Lit("-"),
                    Rep(Digit, 2, 2), WB>>)>>)],
    [label |-> "DATE_REL", pattern |->
        Cat(<<WB,
              Alt(<<Lit("tomorrow"), Lit("tmrw"), Lit("tmr"), Lit("today"), Lit("tdy"),
                    Lit("todaym"), Lit("yesterday"), Lit("yday"), Lit("tonight"),
                    Cat(<<Lit("this"), Plus(Cls("s")), Plus(Cls("w"))>>),
                    Cat(<<Lit("next"), Plus(Cls("s")), Plus(Cls("w"))>>),
                    Cat(<<Lit("in"), Plus(Cls("s")), Plus(Digit), Plus(Cls("s")),
                          Plus(Cls("w"))>>),
                    Cat(<<Lit("in"), Plus(Cls("s")), Plus(Digit),
                          Words(<<"min", "hr", "h", "day">>), Opt(Lit("s"))>>)>>),
              WB>>)],
    [label |-> "TIME", pattern |->
        Cat(<<WB, Alt(<<ClockTime, Lit("noon"), Lit("midnight"), Lit("now")>>), WB>>)],
    [label |-> "REL_DURATION", pattern |->
        Cat(<<WB, Lit("in"), Plus(Cls("s")), Plus(Digit), Star(Cls("s")),
              DurationUnit, WB>>)],
    [label |-> "CATEGORY", pattern |->
        Cat(<<WB, Alt(<<Cat(<<Lit("academic"), Opt(Lit("s"))>>), Lit("fitness"),
                        Lit("health"), Lit("finance"), Lit("errands"), Lit("work"),
                        Lit("school"), Lit("leisure"), Lit("personal"),
                        Lit("selfcare"), Lit("routine"), Lit("chores")>>), WB>>)],
    [label |-> "REM_OFFSET", pattern |-> RemOffsetPattern] >>

scheduled_keywords == <<
    [label |-> "EVENT", pattern |->
        Cat(<<WB, Words(<<"class", "lecture", "meeting", "gym", "workout", "run",
                          "walk", "training", "shift", "lab", "session", "practice",
                          "presentation", "seminar", "call", "checkup", "submission",
                          "essay", "study session", "group work", "team sync",
                          "zoom call", "office hours">>), WB>>)],
    [label |-> "TIME_START", pattern |->
        Cat(<<WB,
              Opt(Cat(<<Lit("start"), Opt(Lit("s")), Plus(Cls("s")), Lit("at"),
                        Plus(Cls("s"))>>)),
              Alt(<<ClockTime, Lit("noon"), Lit("midnight")>>), WB>>)],
    [label |-> "TIME_END", pattern |->
        Cat(<<WB,
              Opt(Cat(<<Lit("end"), Opt(Lit("s")), Plus(Cls("s")), Lit("at"),
                        Plus(Cls("s"))>>)),
              Alt(<<ClockTime, Lit("noon"), Lit("midnight")>>), WB>>)],
    [label |-> "DAY_OF_WEEK", pattern |->
        Cat(<<WB, Alt(<<Cat(<<Lit("mon"), Opt(Lit("day"))>>),
                        Cat(<<Lit("tue"), Opt(Lit("sday"))>>),
                        Cat(<<Lit("wed"), Opt(Lit("nesday"))>>),
                        Cat(<<Lit("thu"), Opt(Lit("rsday"))>>),
                        Cat(<<Lit("fri"), Opt(Lit("day"))>>),
                        Cat(<<Lit("sat"), Opt(Lit("urday"))>>),
                        Cat(<<Lit("sun"), Opt(Lit("day"))>>)>>), WB>>)],
    [label |-> "REM_OFFSET", pattern |-> RemOffsetPattern],
    [label |-> "CATEGORY", pattern |->
        Cat(<<WB, Alt(<<Cat(<<Lit("academic"), Opt(Lit("s"))>>), Lit("fitness"),
                        Lit("health"), Lit("finance"), Lit("errands"), Lit("work"),
                        Lit("school"), Lit("leisure"), Lit("selfcare"),
                        Lit("routine")>>), WB>>)] >>

Scripts == {"grades", "reminder", "scheduled"}

\* the registry the script's tag_tokens iterates over
Registry(sc) ==
    CASE sc = "grades" -> grade_keywords
      [] sc = "reminder" -> reminder_keywords
      [] sc = "scheduled" -> scheduled_keywords

Labels(sc) == {Registry(sc)[k].label : k \in DOMAIN Registry(sc)}

(***************************************************************************)
(* tokenize and the steps of tag_tokens.                                   *)
(***************************************************************************)
\* def tokenize(text): return re.findall(r'\b\w+\b|[^\w\s]', text)
tokenize(t) == findall(tokenize_pattern, t)

\* token i (1-based) lies inside the match m: start >= m_start and end <= m_end
Contained(spans, i, m) == spans[i][1] >= m[1] /\ spans[i][2] <= m[2]

\* a tag format that lost its B- prefix
NewTag_bare(old, label) == IF old = "O" THEN label ELSE "I-" \o label

\* f"B-{label}" if tags[i] == "O" else f"I-{label}"
NewTag(old, label) == IF old = "O" THEN "B-" \o label ELSE "I-" \o label

\* the inner loop of tag_tokens for one match m of the entry labelled label
TagOneMatch(tg, spans, m, label) ==
    [i \in DOMAIN tg |->
        IF i \in DOMAIN spans /\ Contained(spans, i, m)
        THEN NewTag(tg[i], label) ELSE tg[i]]

\* tags[i] with i past the end of tags: the loop raises IndexError
RaisesIndexError(tg, spans, m) ==
    \E i \in DOMAIN spans : Contained(spans, i, m) /\ i \notin DOMAIN tg

(***************************************************************************)
(* Inputs of the tagging scripts: texts built from a few chunks that the   *)
(* registries match, and sentences of the repository's sample data.        *)
(***************************************************************************)
MaxChunks == 3

Chunks(sc) ==
    CASE sc = "grades" -> {"9", "%", " ", "a", "/100", "_"}
      [] sc = "reminder" -> {"do", " ", "now", "5", "pm"}
      [] sc = "scheduled" -> {"gym", " ", "5", "pm", "mon"}

RECURSIVE ChunkTexts(_, _)
ChunkTexts(cs, n) ==
    IF n = 0 THEN {""}
    ELSE {""} \cup {c \o t : c \in cs, t \in ChunkTexts(cs, n - 1)}

ReminderSample == "Remind me to submit my essay tomorrow at 5pm"

SampleTexts(sc) ==
    CASE sc = "grades" -> {"yo croski I got a 95% on my chemistry test",
                           "I got a B+ on my physics test"}
      [] sc = "reminder" -> {ReminderSample}
      [] sc = "scheduled" -> {"I have chemistry class every Monday at 9am"}

Texts(sc) == ChunkTexts(Chunks(sc), MaxChunks) \cup SampleTexts(sc)

(***************************************************************************)
(* The tagging script on one item: tokenize, then tag_tokens, one step per *)
(* registry entry (the finditer call) and one per match.                   *)
(***************************************************************************)
\* the intent extractor is not running
IntentIdle == acts = [t |-> "none", v |-> "None"] /\ intent = "" /\ ipc = "idle"

\* the corrector is not running
NoEntry == [tokens |-> <<>>, tags |-> <<>>]
CorrectorIdle ==
    entry = NoEntry /\ entry0 = NoEntry /\ out1 = NoEntry /\ out2 = NoEntry /\ cpc = "idle"

\* the files the two stages read and write
FileNames ==
    {"training_data.json", "test_data.json", "vocabulary.json", "tfidf_params.json",
     "StudentCompanionClassifier.mlmodel", "student_classifier.pkl", "model_info.json"}

\* a file that does not exist
NoFile == [t |-> "absent", v |-> "None"]

EmptyDisk == [f \in FileNames |-> NoFile]

\* train_test_split has not been called
NoSplit == [how |-> "none", train |-> 0, test |-> 0]

\* no library call of the training stage raises
NoFaults == [fit |-> FALSE, convert |-> FALSE, save |-> FALSE]

\* the data stage is not running
ProcessorIdle ==
    /\ dataset = [load |-> "none", train |-> <<>>]
    /\ dialogue_idx = 0 /\ training_data = <<>> /\ all_samples = <<>>
    /\ split = NoSplit /\ ppc = "idle" /\ perror = ""

\* the training stage is not running
TrainerIdle ==
    /\ sklearn_version = "" /\ ct_version = "" /\ lib = NoFaults
    /\ conv_error = "" /\ tpc = "idle" /\ terror = ""

\* neither stage runs and the directory is empty
PipelineIdle == ProcessorIdle /\ TrainerIdle /\ disk = EmptyDisk

\* the tagging script is not running
TaggerIdle ==
    /\ script = "none" /\ text = "" /\ tokens = <<>> /\ token_spans = <<>>
    /\ tags = <<>> /\ li = 0 /\ matches = <<>> /\ mi = 0 /\ pc = "idle"

TaggerInit ==
    /\ script \in Scripts
    /\ text \in Texts(script)
    /\ tokens = <<>>
    /\ token_spans = <<>>
    /\ tags = <<>>
    /\ li = 0
    /\ matches = <<>>
    /\ mi = 0
    /\ pc = "tokenize"
    /\ IntentIdle
    /\ CorrectorIdle
    /\ PipelineIdle

\* tokens = tokenize(item["text"])
Tokenize ==
    /\ pc = "tokenize"
    /\ tokens' = tokenize(text)
    /\ pc' = "tag_tokens"
    /\ UNCHANGED <<script, text, token_spans, tags, li, matches, mi, intentVars, correctorVars, pipelineVars>>

\* tag_tokens: tags = ["O"] * len(tokens); token_spans = [...]
TagStart ==
    /\ pc = "tag_tokens"
    /\ tags' = [i \in 1..Len(tokens) |-> "O"]
    /\ token_spans' = finditer(token_spans_pattern, text, FALSE)
    /\ pc' = "labels"
    /\ UNCHANGED <<script, text, tokens, li, matches, mi, intentVars, correctorVars, pipelineVars>>

\* for label, pattern in <registry>.items(): ... re.finditer(pattern, text, re.IGNORECASE)
NextLabel ==
    /\ pc = "labels"
    /\ mi = Len(matches)
    /\ li < Len(Registry(script))
    /\ li' = li + 1
    /\ matches' = finditer(Registry(script)[li + 1].pattern, text, TRUE)
    /\ mi' = 0
    /\ UNCHANGED <<script, text, tokens, token_spans, tags, pc, intentVars, correctorVars, pipelineVars>>

\* the body of "for match in ...": the loop over token_spans for one match
TagMatch ==
    /\ pc = "labels"
    /\ mi < Len(matches)
    /\ mi' = mi + 1
    /\ tags' = TagOneMatch(tags, token_spans, matches[mi + 1], Registry(script)[li].label)
    /\ pc' = IF RaisesIndexError(tags, token_spans, matches[mi + 1])
             THEN "IndexError" ELSE pc
    /\ UNCHANGED <<script, text, tokens, token_spans, li, matches, intentVars, correctorVars, pipelineVars>>

\* return tags
TagReturn ==
    /\ pc = "labels"
    /\ mi = Len(matches)
    /\ li = Len(Registry(script))
    /\ pc' = "done"
    /\ UNCHANGED <<script, text, tokens, token_spans, tags, li, matches, mi, intentVars, correctorVars, pipelineVars>>

TaggerNext == Tokenize \/ TagStart \/ NextLabel \/ TagMatch \/ TagReturn

vars == <<taggerVars, intentVars, correctorVars, pipelineVars>>

SpecTagger == TaggerInit /\ [][TaggerNext]_vars

(***************************************************************************)
(* Properties of the taggers.                                              *)
(***************************************************************************)
\* the tokens (1-based) inside the match m
ContainedTokens(spans, m) == {i \in DOMAIN spans : Contained(spans, i, m)}

Min(S) == CHOOSE x \in S : \A y \in S : x <= y

\* C1: once a token's tag is not O, no later step of tag_tokens changes it
\* (the first registry entry that claims a token keeps it).
C1_TagNeverOverwritten ==
    [][\A i \in DOMAIN tags :
          (i \in DOMAIN tags' /\ tags[i] # "O") => tags'[i] = tags[i]]_vars

\* C2: when a match is processed whose contained tokens are all still O, its
\* leftmost contained token becomes B-<label> and every other one I-<label>.
C2_FirstBeginsRestInside ==
    [][(pc = "labels" /\ mi' = mi + 1) =>
          LET m == matches[mi + 1]
              S == ContainedTokens(token_spans, m)
              label == Registry(script)[li].label
          IN  (\A i \in S : i \in DOMAIN tags /\ tags[i] = "O") =>
                  \A i \in S : tags'[i] = IF i = Min(S) THEN "B-" \o label
                                                       ELSE "I-" \o label]_vars

TagValues(sc) ==
    {"O"} \cup {"B-" \o l : l \in Labels(sc)} \cup {"I-" \o l : l \in Labels(sc)}

NoPatternMatches(sc, t) ==
    \A k \in DOMAIN Registry(sc) : finditer(Registry(sc)[k].pattern, t, TRUE) = <<>>

\* C7: tag_tokens raises no error, its tags are as many as the tokens, each
\* tag is O, B-<label> or I-<label> for a label of the registry, and the tags
\* returned for a text that no registry pattern matches are all O.
C7_TagsWellFormed ==
    /\ pc # "IndexError"
    /\ pc \in {"labels", "done"} =>
          /\ Len(tags) = Len(tokens)
          /\ \A i \in DOMAIN tags : tags[i] \in TagValues(script)
    /\ (pc = "done" /\ NoPatternMatches(script, text)) =>
          \A i \in DOMAIN tags : tags[i] = "O"

\* tag_tokens has returned a sequence with tagged and untagged tokens
C7_Witness ==
    /\ pc = "done"
    /\ \E i \in DOMAIN tags : tags[i] # "O"
    /\ \E j \in DOMAIN tags : tags[j] = "O"

RECURSIVE SumLen(_)
SumLen(ts) == IF ts = <<>> THEN 0 ELSE Len(Head(ts)) + SumLen(Tail(ts))

\* C8: the token spans are strictly increasing and do not overlap, the i-th
\* token is the slice text[start_i:end_i] of the i-th span, and the token
\* lengths sum to at most len(text).
C8_SpansAligned ==
    pc \in {"labels", "done"} =>
        /\ Len(token_spans) = Len(tokens)
        /\ \A i \in DOMAIN token_spans :
              /\ 0 <= token_spans[i][1]
              /\ token_spans[i][1] < token_spans[i][2]
              /\ token_spans[i][2] <= Len(text)
              /\ i > 1 => token_spans[i - 1][2] <= token_spans[i][1]
              /\ tokens[i] = SubSeq(text, token_spans[i][1] + 1, token_spans[i][2])
        /\ SumLen(tokens) <= Len(text)

\* a text in which a token value repeats has been tokenized and tagged
C8_Witness ==
    /\ pc = "done"
    /\ \E i, j \in DOMAIN tokens : i < j /\ tokens[i] = tokens[j]

RECURSIVE WordRunEnd(_, _), RunTokens(_, _)
\* the end offset of the maximal run of word characters that contains offset p
WordRunEnd(s, p) == IF IsWordAt(s, p) THEN WordRunEnd(s, p + 1) ELSE p

\* one token per maximal run of word characters, one per other non-whitespace
\* character, none for whitespace, from offset p on
RunTokens(s, p) ==
    IF p >= Len(s) THEN <<>>
    ELSE IF CharAt(s, p) \in SpaceChars THEN RunTokens(s, p + 1)
    ELSE IF CharAt(s, p) \in WordChars
         THEN <<SubSeq(s, p + 1, WordRunEnd(s, p))>> \o RunTokens(s, WordRunEnd(s, p))
         ELSE <<CharAt(s, p)>> \o RunTokens(s, p + 1)

\* C9: tokenize returns, left to right, one token per maximal run of word
\* characters and one per single non-whitespace non-word character, nothing
\* for whitespace, and the empty sequence for the empty string.
C9_TokenizeRuns ==
    pc # "tokenize" =>
        /\ tokens = RunTokens(text, 0)
        /\ text = "" => tokens = <<>>

\* a text with whitespace, a word of several characters and punctuation
C9_Witness ==
    /\ pc # "tokenize"
    /\ \E p \in 0..(Len(text) - 1) : CharAt(text, p) \in SpaceChars
    /\ \E i \in DOMAIN tokens : Len(tokens[i]) > 1
    /\ \E i \in DOMAIN tokens : tokens[i] \notin WordChars /\ Len(tokens[i]) = 1

\* a BIO span of the label that covers tokens a..b: a B- tag at or before a,
\* followed up to b only by I- tags of the label
SpanCovers(tg, label, a, b) ==
    \E st \in 1..a :
        /\ b \in DOMAIN tg
        /\ tg[st] = "B-" \o label
        /\ \A i \in (st + 1)..b : tg[i] = "I-" \o label

\* C10: the tags of "Remind me to submit my essay tomorrow at 5pm" under the
\* reminder registry hold an EVENT span covering "submit my essay" (tokens
\* 4..6), a DATE_REL span covering "tomorrow" (token 7) and a TIME span
\* covering "5pm" (token 9).
C10_ReminderSampleSpans ==
    (pc = "done" /\ script = "reminder" /\ text = ReminderSample) =>
        /\ SpanCovers(tags, "EVENT", 4, 6)
        /\ SpanCovers(tags, "DATE_REL", 7, 7)
        /\ SpanCovers(tags, "TIME", 9, 9)

(***************************************************************************)
(* The intent extractor of multiwoz_processor.py.  A Python value is a     *)
(* record [t |-> its type, v |-> its content]: a list holds a sequence, a  *)
(* dict a record of its keys.  An operation that raises yields the name of *)
(* the exception.                                                          *)
(***************************************************************************)
PyNone == [t |-> "none", v |-> "None"]
PyStr(x) == [t |-> "str", v |-> x]
PyList(xs) == [t |-> "list", v |-> xs]
PyDict(d) == [t |-> "dict", v |-> d]

Errors == {"KeyError", "TypeError"}

\* the function has not returned yet: the loop goes on
NoReturn == "<no return>"

\* isinstance(x, list), isinstance(x, dict), isinstance(x, str)
IsList(x) == x.t = "list"
IsDict(x) == x.t = "dict"
IsStr(x) == x.t = "str"

\* bool(x) for the values above
Truthy(x) ==
    CASE x.t = "none" -> FALSE
      [] x.t = "str" -> x.v # ""
      [] x.t = "list" -> x.v # <<>>
      [] x.t = "dict" -> DOMAIN x.v # {}

\* k in x, for a dict x
HasKey(x, k) == k \in DOMAIN x.v

\* the outcome of an operation that raises the exception e
Raise(e) == [t |-> "raise", v |-> e]
IsRaise(x) == x.t = "raise"

\* x[k] with a string key k: KeyError on a dict without k, TypeError elsewhere
PyGetItem(x, k) ==
    IF IsDict(x) THEN (IF HasKey(x, k) THEN x.v[k] ELSE Raise("KeyError"))
    ELSE Raise("TypeError")

\* x.get(k, default), for a dict x
PyGet(x, k, default) == IF HasKey(x, k) THEN x.v[k] ELSE default

\* sub in s, for strings
Contains(s, sub) ==
    \E p \in 0..(Len(s) - Len(sub)) : SubSeq(s, p + 1, p + Len(sub)) = sub

\* intent_mapping, in the order of the dict literal
intent_mapping == <<
    <<"book", "schedule_task">>, <<"booking", "schedule_task">>,
    <<"inform", "search_info">>, <<"request", "general_query">>,
    <<"recommend", "search_info">>, <<"select", "search_info">>,
    <<"greet", "general_query">>, <<"bye", "general_query">>,
    <<"thank", "general_query">>, <<"negate", "general_query">>,
    <<"confirm", "general_query">>, <<"dontcare", "general_query">>,
    <<"repeat", "general_query">>, <<"reqmore", "general_query">>,
    <<"welcom", "general_query">>, <<"deny", "general_query">>,
    <<"goodbye", "general_query">>,
    <<"hotel-inform", "search_info">>, <<"restaurant-inform", "search_info">>,
    <<"attraction-inform", "search_info">>, <<"train-inform", "search_info">>,
    <<"hospital-inform", "search_info">>, <<"police-inform", "search_info">>,
    <<"hotel-request", "general_query">>, <<"restaurant-request", "general_query">>,
    <<"attraction-request", "general_query">>, <<"train-request", "general_query">>,
    <<"hotel-book", "schedule_task">>, <<"restaurant-book", "schedule_task">>,
    <<"train-book", "schedule_task">>, <<"taxi-book", "schedule_task">> >>

RECURSIVE MappingScan(_, _, _)
\* for keyword, intent in intent_mapping.items(): if keyword in act_lower: return intent
MappingScan(act_lower, mapping, k) ==
    IF k > Len(mapping) THEN NoReturn
    ELSE IF Contains(act_lower, mapping[k][1]) THEN mapping[k][2]
    ELSE MappingScan(act_lower, mapping, k + 1)

\* the body of the loop over act_types for one entry
ActIntent(a, mapping) ==
    IF IsStr(a) /\ Truthy(a)
    THEN LET act_lower == lower(a.v) IN
         IF \/ Contains(act_lower, "hotel-book") \/ Contains(act_lower, "restaurant-book")
            \/ Contains(act_lower, "train-book") \/ Contains(act_lower, "taxi-book")
         THEN "schedule_task"
         ELSE IF \/ Contains(act_lower, "hotel-inform")
                 \/ Contains(act_lower, "restaurant-inform")
                 \/ Contains(act_lower, "attraction-inform")
                 \/ Contains(act_lower, "train-inform")
                 \/ Contains(act_lower, "hospital-inform")
                 \/ Contains(act_lower, "police-inform")
         THEN "search_info"
         ELSE IF \/ Contains(act_lower, "hotel-request")
                 \/ Contains(act_lower, "restaurant-request")
                 \/ Contains(act_lower, "attraction-request")
                 \/ Contains(act_lower, "train-request")
         THEN "general_query"
         ELSE MappingScan(act_lower, mapping, 1)
    ELSE NoReturn

RECURSIVE ScanActs_last(_, _, _)
\* a loop over act_types that keeps the last matching entry instead of
\* returning at the first
ScanActs_last(as, j, mapping) ==
    IF j > Len(as) THEN NoReturn
    ELSE LET rest == ScanActs_last(as, j + 1, mapping) IN
         IF rest # NoReturn THEN rest ELSE ActIntent(as[j], mapping)

RECURSIVE ScanActs(_, _, _)
\* for act_type_str in act_types: ... (returns at the first entry that decides)
ScanActs(as, j, mapping) ==
    IF j > Len(as) THEN NoReturn
    ELSE LET r == ActIntent(as[j], mapping) IN
         IF r # NoReturn THEN r ELSE ScanActs(as, j + 1, mapping)

\* the loop body without its isinstance and membership guards
ItemIntent_unguarded(item, mapping) ==
    LET dialog_act_detail == PyGetItem(item, "dialog_act") IN
    IF IsRaise(dialog_act_detail) THEN dialog_act_detail.v
    ELSE LET act_types == PyGetItem(dialog_act_detail, "act_type") IN
         IF IsRaise(act_types) THEN act_types.v
         ELSE IF IsList(act_types) THEN ScanActs(act_types.v, 1, mapping)
         ELSE "TypeError"

\* the body of the loop over raw_dialog_acts_list for one item
ItemIntent(item, mapping) ==
    IF IsDict(item) /\ HasKey(item, "dialog_act")
    THEN LET dialog_act_detail == PyGetItem(item, "dialog_act") IN
         IF IsDict(dialog_act_detail) /\ HasKey(dialog_act_detail, "act_type")
         THEN LET act_types == PyGet(dialog_act_detail, "act_type", PyList(<<>>)) IN
              IF IsList(act_types) THEN ScanActs(act_types.v, 1, mapping) ELSE NoReturn
         ELSE NoReturn
    ELSE NoReturn

RECURSIVE ScanItems(_, _, _)
\* for dialog_act_item in raw_dialog_acts_list: ...
ScanItems(items, k, mapping) ==
    IF k > Len(items) THEN NoReturn
    ELSE LET r == ItemIntent(items[k], mapping) IN
         IF r # NoReturn THEN r ELSE ScanItems(items, k + 1, mapping)

\* extract_intent_from_multiwoz_v22_dialog_acts(raw_dialog_acts_list, intent_mapping)
extract_intent_from_multiwoz_v22_dialog_acts(raw_dialog_acts_list, mapping) ==
    IF ~IsList(raw_dialog_acts_list) \/ ~Truthy(raw_dialog_acts_list)
    THEN "general_query"
    ELSE LET r == ScanItems(raw_dialog_acts_list.v, 1, mapping) IN
         IF r = NoReturn THEN "general_query" ELSE r

(***************************************************************************)
(* Arguments of the intent extractor: lists of at most MaxRecords items    *)
(* that hold at most MaxActs act-type entries together, and some values    *)
(* that are no lists.                                                      *)
(***************************************************************************)
MaxRecords == 2

MaxActs == 2

ActEntries ==
    {PyStr("Hotel-Book"), PyStr("Hotel-Request"), PyStr("Train-Inform"),
     PyStr("Booking-Inform"), PyStr("Xyz"), PyStr(""), PyNone}

\* a well-formed record of one turn
Record(as) ==
    PyDict([dialog_act |-> PyDict([act_type |-> PyList(as), act_slots |-> PyList(<<>>)]),
            span_info |-> PyNone])

\* items that are no well-formed records
MalformedItems ==
    {PyNone,
     PyDict([span_info |-> PyNone]),
     PyDict([dialog_act |-> PyNone, span_info |-> PyNone]),
     PyDict([dialog_act |-> PyDict([act_slots |-> PyList(<<>>)]), span_info |-> PyNone]),
     PyDict([dialog_act |-> PyDict([act_type |-> PyStr("Hotel-Book"),
                                    act_slots |-> PyList(<<>>)]),
             span_info |-> PyNone])}

RECURSIVE SeqsUpTo(_, _)
\* the sequences over S of length at most n
SeqsUpTo(S, n) ==
    IF n = 0 THEN {<<>>}
    ELSE {<<>>} \cup {<<x>> \o q : x \in S, q \in SeqsUpTo(S, n - 1)}

\* the number of act-type entries an item holds
ActCount(item) ==
    IF /\ IsDict(item) /\ HasKey(item, "dialog_act")
       /\ IsDict(item.v.dialog_act) /\ HasKey(item.v.dialog_act, "act_type")
       /\ IsList(item.v.dialog_act.v.act_type)
    THEN Len(item.v.dialog_act.v.act_type.v) ELSE 0

RECURSIVE SeqsOfLen(_, _)
\* the sequences over S of length n
SeqsOfLen(S, n) ==
    IF n = 0 THEN {<<>>} ELSE {<<x>> \o q : x \in S, q \in SeqsOfLen(S, n - 1)}

\* the items that hold exactly k act-type entries
ItemsWith(k) ==
    {Record(as) : as \in SeqsOfLen(ActEntries, k)} \cup (IF k = 0 THEN MalformedItems ELSE {})

\* values that are no lists at all
NonLists == {PyNone, PyStr("Hotel-Book"), Record(<<PyStr("Hotel-Book")>>)}

RECURSIVE IsActsList(_, _, _)
\* acts is the list made of the items of prefix and of at most n more items
\* that hold at most b act-type entries together
IsActsList(prefix, n, b) ==
    \/ acts = PyList(prefix)
    \/ /\ n > 0
       /\ \E k \in 0..b : \E x \in ItemsWith(k) : IsActsList(prefix \o <<x>>, n - 1, b - k)

IntentInit ==
    /\ \/ acts \in NonLists
       \/ IsActsList(<<>>, MaxRecords, MaxActs)
    /\ intent = ""
    /\ ipc = "call"
    /\ TaggerIdle
    /\ CorrectorIdle
    /\ PipelineIdle

\* predicted_intent = extract_intent_from_multiwoz_v22_dialog_acts(..., intent_mapping)
ExtractIntent ==
    /\ ipc = "call"
    /\ intent' = extract_intent_from_multiwoz_v22_dialog_acts(acts, intent_mapping)
    /\ ipc' = IF intent' \in Errors THEN "raised" ELSE "returned"
    /\ UNCHANGED <<acts, taggerVars, correctorVars, pipelineVars>>

IntentNext == ExtractIntent

SpecIntent == IntentInit /\ [][IntentNext]_vars

(***************************************************************************)
(* Properties of the intent extractor.                                     *)
(***************************************************************************)
\* the non-empty act-type strings of one item, in act_type order
ItemActs(item) ==
    IF ActCount(item) > 0
    THEN SelectSeq(item.v.dialog_act.v.act_type.v, LAMBDA a : IsStr(a) /\ a.v # "")
    ELSE <<>>

RECURSIVE FlatActs(_)
\* the act-type strings of the argument in record order, then act_type order
FlatActs(items) ==
    IF items = <<>> THEN <<>> ELSE ItemActs(Head(items)) \o FlatActs(Tail(items))

BookingCompounds == {"hotel-book", "restaurant-book", "train-book", "taxi-book"}

InformCompounds ==
    {"hotel-inform", "restaurant-inform", "attraction-inform", "train-inform",
     "hospital-inform", "police-inform"}

RequestCompounds ==
    {"hotel-request", "restaurant-request", "attraction-request", "train-request"}

Keywords(ls) == {k \in DOMAIN intent_mapping : Contains(ls, intent_mapping[k][1])}

\* some rule matches the act-type string a
RuleMatches(a) ==
    LET ls == lower(a.v) IN
    \/ \E c \in BookingCompounds \cup InformCompounds \cup RequestCompounds : Contains(ls, c)
    \/ Keywords(ls) # {}

\* the intent the rules give the act-type string a
RuleIntent(a) ==
    LET ls == lower(a.v) IN
    IF \E c \in BookingCompounds : Contains(ls, c) THEN "schedule_task"
    ELSE IF \E c \in InformCompounds : Contains(ls, c) THEN "search_info"
    ELSE IF \E c \in RequestCompounds : Contains(ls, c) THEN "general_query"
    ELSE intent_mapping[Min(Keywords(ls))][2]

MatchingActs(raw) ==
    IF IsList(raw)
    THEN {j \in DOMAIN FlatActs(raw.v) : RuleMatches(FlatActs(raw.v)[j])}
    ELSE {}

\* C3: the intent returned is the one the rules (compound rules first, then
\* the mapping in its declared order) give the first act-type string, in
\* record order and then act_type order, that matches any rule;
\* ['Hotel-Book'] gives schedule_task and ['Hotel-Request'] general_query.
C3_FirstMatchingActDecides ==
    ipc # "call" =>
        /\ MatchingActs(acts) # {} =>
              intent = RuleIntent(FlatActs(acts.v)[Min(MatchingActs(acts))])
        /\ acts = PyList(<<Record(<<PyStr("Hotel-Book")>>)>>) => intent = "schedule_task"
        /\ acts = PyList(<<Record(<<PyStr("Hotel-Request")>>)>>) => intent = "general_query"

\* two act-type strings match and the rules give them different intents
C3_Witness ==
    /\ ipc = "returned"
    /\ Cardinality(MatchingActs(acts)) = 2
    /\ Len(FlatActs(acts.v)) = 2
    /\ RuleIntent(FlatActs(acts.v)[1]) # RuleIntent(FlatActs(acts.v)[2])

ValidIntents == {intent_mapping[k][2] : k \in DOMAIN intent_mapping} \cup {"general_query"}

\* C4: the extractor raises no error on any argument and returns an intent
\* of the mapping or general_query; when nothing matches it returns
\* general_query.
C4_TotalValidIntent ==
    /\ ipc # "raised"
    /\ ipc = "returned" =>
          /\ intent \in ValidIntents
          /\ MatchingActs(acts) = {} => intent = "general_query"

\* a malformed item was passed over and the record after it decided
C4_Witness ==
    /\ ipc = "returned"
    /\ IsList(acts)
    /\ Len(acts.v) = 2
    /\ acts.v[1] \in MalformedItems
    /\ intent = "schedule_task"

(***************************************************************************)
(* The letter-grade corrector of validate_entities.py.                     *)
(***************************************************************************)
\* re.compile(r"\b\d{1,3}(?:\.\d+)?(?=\s*(%|percent|/))", re.IGNORECASE)
score_value_re ==
    Cat(<<WB, Number3, Ahead(Cat(<<Star(Cls("s")), Words(<<"%", "percent", "/">>)>>))>>)

\* re.compile(r"\b(%|percent|/100)\b", re.IGNORECASE)
score_unit_re == Cat(<<WB, Words(<<"%", "percent", "/100">>), WB>>)

RECURSIVE Join(_, _)
\* sep.join(ts)
Join(ts, sep) ==
    IF ts = <<>> THEN ""
    ELSE IF Len(ts) = 1 THEN ts[1]
    ELSE ts[1] \o sep \o Join(Tail(ts), sep)

\* s.startswith(prefix)
StartsWith(s, prefix) == Len(s) >= Len(prefix) /\ SubSeq(s, 1, Len(prefix)) = prefix

\* has_numeric = bool(score_value_re.search(text) or score_unit_re.search(text))
has_numeric(e) ==
    LET joined == Join(e.tokens, " ") IN
    search(score_value_re, joined, TRUE) \/ search(score_unit_re, joined, TRUE)

\* a rewrite that forgets the I- tags
AdjustTags_beginOnly(tg) ==
    [i \in DOMAIN tg |-> IF StartsWith(tg[i], "B-LETTER_GRADE") THEN "O" ELSE tg[i]]

\* ["O" if tag.startswith("B-LETTER_GRADE") or tag.startswith("I-LETTER_GRADE")
\*  else tag for tag in tags]
AdjustTags(tg) ==
    [i \in DOMAIN tg |->
        IF StartsWith(tg[i], "B-LETTER_GRADE") \/ StartsWith(tg[i], "I-LETTER_GRADE")
        THEN "O" ELSE tg[i]]

\* a corrector that does not look for numeric evidence
adjust_letter_grades_always(e) == [e EXCEPT !.tags = AdjustTags(e.tags)]

\* the dict entry after adjust_letter_grades(entry), which is also what it returns
adjust_letter_grades(e) ==
    IF has_numeric(e) THEN [e EXCEPT !.tags = AdjustTags(e.tags)] ELSE e

MaxTokens == 2

TokenVocabulary == {"a", "95", "%", "percent"}

EntryTags == {"O", "B-LETTER_GRADE", "I-LETTER_GRADE", "B-SCORE_VALUE"}

\* "I got a 95 %" with the letter-grade pattern's match on "a"
SampleEntry ==
    [tokens |-> <<"I", "got", "a", "95", "%">>,
     tags |-> <<"O", "O", "B-LETTER_GRADE", "B-SCORE_VALUE", "O">>]

\* entries of entities.json: as many tags as tokens
Entries ==
    {[tokens |-> ts, tags |-> tg] :
        ts \in SeqsUpTo(TokenVocabulary, MaxTokens),
        tg \in SeqsUpTo(EntryTags, MaxTokens)} \cup {SampleEntry}

CorrectorInit ==
    /\ entry \in {e \in Entries : Len(e.tokens) = Len(e.tags)}
    /\ entry0 = entry
    /\ out1 = NoEntry
    /\ out2 = NoEntry
    /\ cpc = "call"
    /\ TaggerIdle
    /\ IntentIdle
    /\ PipelineIdle

\* adjusted = [adjust_letter_grades(entry) for entry in data], for one entry
AdjustEntry ==
    /\ cpc = "call"
    /\ entry' = adjust_letter_grades(entry)
    /\ out1' = entry'
    /\ cpc' = "once"
    /\ UNCHANGED <<entry0, out2, taggerVars, intentVars, pipelineVars>>

\* the corrector applied to its own result
AdjustAgain ==
    /\ cpc = "once"
    /\ entry' = adjust_letter_grades(out1)
    /\ out2' = entry'
    /\ cpc' = "twice"
    /\ UNCHANGED <<entry0, out1, taggerVars, intentVars, pipelineVars>>

CorrectorNext == AdjustEntry \/ AdjustAgain

SpecCorrector == CorrectorInit /\ [][CorrectorNext]_vars

LetterGradeTags == {"B-LETTER_GRADE", "I-LETTER_GRADE"}

\* C5: for an entry with numeric evidence the corrector returns the same
\* tokens and as many tags, every B-LETTER_GRADE and I-LETTER_GRADE replaced
\* by O and every other tag kept; the tag of "a" in <<I, got, a, 95, %>>
\* becomes O.
C5_LetterGradesStripped ==
    (cpc # "call" /\ has_numeric(entry0)) =>
        /\ DOMAIN out1 = DOMAIN entry0
        /\ out1.tokens = entry0.tokens
        /\ Len(out1.tags) = Len(entry0.tags)
        /\ \A i \in DOMAIN entry0.tags :
              out1.tags[i] = IF entry0.tags[i] \in LetterGradeTags THEN "O"
                             ELSE entry0.tags[i]
        /\ entry0 = SampleEntry => out1.tags[3] = "O"

\* the sample entry has been corrected
C5_Witness ==
    /\ cpc = "once"
    /\ entry0 = SampleEntry
    /\ has_numeric(entry0)
    /\ out1.tags = <<"O", "O", "O", "B-SCORE_VALUE", "O">>

\* C6: an entry without numeric evidence is returned with its tags unchanged,
\* and correcting the corrected entry again returns the same entry.
C6_PassThroughAndIdempotent ==
    /\ (cpc # "call" /\ ~has_numeric(entry0)) => out1 = entry0
    /\ cpc = "twice" => out2 = out1

\* an entry was changed by the first call and the second call has returned
C6_Witness ==
    /\ cpc = "twice"
    /\ out1 # entry0

\* C15: adjust_letter_grades does not mutate its input: after the call the
\* dict passed as entry has the tokens and the tags it had before the call.
C15_InputNotMutated ==
    cpc # "call" => (entry.tokens = entry0.tokens /\ entry.tags = entry0.tags)

(***************************************************************************)
(* The data stage: process_multiwoz_for_student_companion and its fallback *)
(* process_with_local_data (multiwoz_processor.py).                        *)
(***************************************************************************)
PyInt(n) == [t |-> "int", v |-> n]

RECURSIVE lstrip(_)
lstrip(s) ==
    IF s # "" /\ CharAt(s, 0) \in SpaceChars THEN lstrip(SubSeq(s, 2, Len(s))) ELSE s

RECURSIVE rstrip(_)
rstrip(s) ==
    IF s # "" /\ CharAt(s, Len(s) - 1) \in SpaceChars
    THEN rstrip(SubSeq(s, 1, Len(s) - 1)) ELSE s

\* s.strip()
strip(s) == rstrip(lstrip(s))

\* x.get(k, default): only a dict has the method
PyDotGet(x, k, default) ==
    IF IsDict(x) THEN PyGet(x, k, default) ELSE Raise("AttributeError")

\* len(x)
PyLen(x) ==
    IF IsList(x) \/ IsStr(x) THEN PyInt(Len(x.v))
    ELSE IF IsDict(x) THEN PyInt(Cardinality(DOMAIN x.v))
    ELSE Raise("TypeError")

\* x[k][i] for a string key k and an index i >= 0
PyColumnItem(x, k, i) ==
    LET column == PyGetItem(x, k) IN
    IF IsRaise(column) THEN column
    ELSE IF IsList(column)
         THEN (IF i < Len(column.v) THEN column.v[i + 1] ELSE Raise("IndexError"))
    ELSE IF IsStr(column)
         THEN (IF i < Len(column.v) THEN PyStr(CharAt(column.v, i)) ELSE Raise("IndexError"))
    ELSE IF IsDict(column) THEN Raise("KeyError")
    ELSE Raise("TypeError")

\* turns_data = dialogue.get('turns', {})
TurnsData(dialogue) == PyDotGet(dialogue, "turns", PyDict(<<>>))

\* num_turns_in_dialogue = len(turns_data.get('utterance', []))
NumTurns(turns_data) ==
    IF IsRaise(turns_data) THEN turns_data
    ELSE LET utterances == PyDotGet(turns_data, "utterance", PyList(<<>>)) IN
         IF IsRaise(utterances) THEN utterances ELSE PyLen(utterances)

\* the three reads at the head of the loop body, which the debugging block
\* makes too: the exception of the first that raises, PyNone if none does
TurnReads(turns_data, turn_idx) ==
    LET speaker_raw == PyColumnItem(turns_data, "speaker", turn_idx)
        utterance_text == PyColumnItem(turns_data, "utterance", turn_idx)
        dialogue_acts_for_turn == PyColumnItem(turns_data, "dialogue_acts", turn_idx)
    IN  IF IsRaise(speaker_raw) THEN speaker_raw
        ELSE IF IsRaise(utterance_text) THEN utterance_text
        ELSE IF IsRaise(dialogue_acts_for_turn) THEN dialogue_acts_for_turn
        ELSE PyNone

\* the body of "for turn_idx in range(num_turns_in_dialogue)" for one turn:
\* the samples it appends, or the exception its handler catches
TurnSamples(turns_data, turn_idx, mapping) ==
    LET reads == TurnReads(turns_data, turn_idx)
        speaker_raw == PyColumnItem(turns_data, "speaker", turn_idx)
        utterance_text == PyColumnItem(turns_data, "utterance", turn_idx)
        dialogue_acts_for_turn == PyColumnItem(turns_data, "dialogue_acts", turn_idx)
    IN  IF IsRaise(reads) THEN reads
        ELSE IF ~(speaker_raw.t = "int" /\ speaker_raw.v = 0) THEN PyList(<<>>)
        ELSE IF ~IsStr(utterance_text) THEN Raise("AttributeError")
        ELSE LET utterance == strip(utterance_text.v) IN
             IF Len(utterance) < 5 THEN PyList(<<>>)
             ELSE LET predicted_intent ==
                          extract_intent_from_multiwoz_v22_dialog_acts(
                              dialogue_acts_for_turn, mapping)
                  IN  IF predicted_intent # ""
                      THEN PyList(<<[text |-> utterance, label |-> predicted_intent]>>)
                      ELSE PyList(<<>>)

RECURSIVE TurnLoop(_, _, _, _)
\* for turn_idx in range(num_turns_in_dialogue): try: ... except Exception: continue
\* (what the turns from turn_idx on append to training_data)
TurnLoop(turns_data, turn_idx, num_turns_in_dialogue, mapping) ==
    IF turn_idx >= num_turns_in_dialogue THEN <<>>
    ELSE LET r == TurnSamples(turns_data, turn_idx, mapping) IN
         (IF IsRaise(r) THEN <<>> ELSE r.v)
             \o TurnLoop(turns_data, turn_idx + 1, num_turns_in_dialogue, mapping)

\* the body of "for dialogue_idx, dialogue in enumerate(train_data)" for one
\* dialogue: the samples it appends, or the exception raised outside the try
DialogueSamples(dialogue, mapping) ==
    LET turns_data == TurnsData(dialogue)
        num_turns_in_dialogue == NumTurns(turns_data)
    IN  IF IsRaise(num_turns_in_dialogue) THEN num_turns_in_dialogue
        ELSE IF num_turns_in_dialogue.v = 0 THEN PyList(<<>>)
        ELSE PyList(TurnLoop(turns_data, 0, num_turns_in_dialogue.v, mapping))

\* the debugging block inside the try around load_dataset: TRUE if examining
\* the first dialogue and its first 5 turns raises
DebugRaises(train_data) ==
    /\ Len(train_data) > 0
    /\ LET first_dialogue == train_data[1]
           turns_data == TurnsData(first_dialogue)
           num_turns_in_dialogue == NumTurns(turns_data)
       IN  \/ IsRaise(num_turns_in_dialogue)
           \/ \E i \in 0..((IF 5 <= num_turns_in_dialogue.v THEN 5
                               ELSE num_turns_in_dialogue.v) - 1) :
                  IsRaise(TurnReads(turns_data, i))

dialogue_limit == 500

\* student_samples of process_multiwoz_for_student_companion
student_samples == <<
    [text |-> "Help me study for my math exam", label |-> "study_help"],
    [text |-> "I need to take notes during the lecture", label |-> "note_taking"],
    [text |-> "Remind me about my assignment due tomorrow", label |-> "assignment_reminder"],
    [text |-> "What's my current grade in chemistry", label |-> "grade_tracking"],
    [text |-> "Schedule my biology class for next week", label |-> "schedule_class"],
    [text |-> "I need help preparing for finals", label |-> "exam_prep"],
    [text |-> "What are the library hours today", label |-> "library_hours"],
    [text |-> "Tell me about my computer science course", label |-> "course_info"],
    [text |-> "Can you help me with this question", label |-> "general_query"],
    [text |-> "I have a test coming up and need study tips", label |-> "study_help"],
    [text |-> "Create a note about today's physics lecture", label |-> "note_taking"],
    [text |-> "Don't let me forget my essay is due Friday", label |-> "assignment_reminder"],
    [text |-> "How am I doing in organic chemistry", label |-> "grade_tracking"],
    [text |-> "Add calculus to my weekly schedule", label |-> "schedule_class"],
    [text |-> "I need to prepare for my midterm", label |-> "exam_prep"],
    [text |-> "When does the library close", label |-> "library_hours"],
    [text |-> "Show me details about my history course", label |-> "course_info"],
    [text |-> "I need help with this homework problem", label |-> "general_query"],
    [text |-> "yo croski help me study for calculus", label |-> "study_help"],
    [text |-> "yo croski I got a 95% on my chemistry test", label |-> "grade_tracking"],
    [text |-> "yo croski remind me to finish my homework", label |-> "assignment_reminder"],
    [text |-> "I have chemistry class every Monday at 9am", label |-> "schedule_class"],
    [text |-> "I need to book a study room", label |-> "schedule_task"],
    [text |-> "Can you find me information about the math department", label |-> "search_info"],
    [text |-> "I'm looking for a good place to study", label |-> "search_info"],
    [text |-> "Reserve a table at the library", label |-> "schedule_task"],
    [text |-> "I want to book a tutoring session", label |-> "schedule_task"],
    [text |-> "Find me information about office hours", label |-> "search_info"],
    [text |-> "I need details about the exam schedule", label |-> "search_info"],
    [text |-> "Book me a meeting with my advisor", label |-> "schedule_task"] >>

\* multiwoz_samples of process_with_local_data
multiwoz_samples == <<
    [text |-> "I need to book a table for dinner", label |-> "schedule_task"],
    [text |-> "Can you help me find information about trains", label |-> "search_info"],
    [text |-> "I'm looking for a good restaurant nearby", label |-> "search_info"],
    [text |-> "Book me a hotel room for tonight", label |-> "schedule_task"],
    [text |-> "What time does the restaurant open", label |-> "search_info"],
    [text |-> "I need to reserve a taxi", label |-> "schedule_task"],
    [text |-> "Find me attractions in the city center", label |-> "search_info"],
    [text |-> "Book a train ticket to London", label |-> "schedule_task"],
    [text |-> "Where is the nearest hospital", label |-> "search_info"],
    [text |-> "I want to book a table for two", label |-> "schedule_task"],
    [text |-> "Can you recommend a good hotel", label |-> "search_info"],
    [text |-> "I need information about local attractions", label |-> "search_info"],
    [text |-> "Book me a taxi to the airport", label |-> "schedule_task"],
    [text |-> "What restaurants do you recommend", label |-> "search_info"],
    [text |-> "I want to make a reservation", label |-> "schedule_task"] >>

\* student_samples of process_with_local_data
local_student_samples == <<
    [text |-> "Help me study for my math exam", label |-> "study_help"],
    [text |-> "I need to take notes during the lecture", label |-> "note_taking"],
    [text |-> "Remind me about my assignment due tomorrow", label |-> "assignment_reminder"],
    [text |-> "What's my current grade in chemistry", label |-> "grade_tracking"],
    [text |-> "Schedule my biology class for next week", label |-> "schedule_class"],
    [text |-> "I need help preparing for finals", label |-> "exam_prep"],
    [text |-> "What are the library hours today", label |-> "library_hours"],
    [text |-> "Tell me about my computer science course", label |-> "course_info"],
    [text |-> "Can you help me with this question", label |-> "general_query"],
    [text |-> "yo croski help me with calculus", label |-> "study_help"],
    [text |-> "I got a B+ on my physics test", label |-> "grade_tracking"] >>

\* train_test_split(samples, test_size=0.2, random_state=42[, stratify=labels])
\* of scikit-learn, by the labels of the samples: the sizes <<n_train, n_test>>
\* of the two parts (which samples go where is the library's shuffle), or the
\* ValueError of an empty part, of a class with one member, or of a part
\* smaller than the number of classes
train_test_split(labels, stratify) ==
    LET n_samples == Len(labels)
        n_test == (n_samples + 4) \div 5
        n_train == n_samples - n_test
        classes == {labels[i] : i \in DOMAIN labels}
        n_classes == Cardinality(classes)
        class_count(c) == Cardinality({i \in DOMAIN labels : labels[i] = c})
    IN  IF n_train = 0 THEN Raise("ValueError")
        ELSE IF stratify /\ (\/ \E c \in classes : class_count(c) < 2
                             \/ n_train < n_classes
                             \/ n_test < n_classes)
        THEN Raise("ValueError")
        ELSE [t |-> "sizes", v |-> <<n_train, n_test>>]

\* the outcome of a split as the value of the variable split
SplitResult(how, r) ==
    IF IsRaise(r) THEN r
    ELSE [t |-> "split", v |-> [how |-> how, train |-> r.v[1], test |-> r.v[2]]]

\* ["label"] of every sample
LabelsOf(samples) == [i \in DOMAIN samples |-> samples[i].label]

\* the split with a stratified call whose ValueError is not caught
SplitStep_uncaught(samples) ==
    LET labels == LabelsOf(samples) IN
    IF Len(samples) < 2 * Cardinality({labels[i] : i \in DOMAIN labels})
    THEN SplitResult("simple", train_test_split(labels, FALSE))
    ELSE SplitResult("stratified", train_test_split(labels, TRUE))

\* if len(all_samples) < 2 * len(set(labels)): simple split
\* else: try: stratified split; except ValueError: simple split
SplitStep(samples) ==
    LET labels == LabelsOf(samples) IN
    IF Len(samples) < 2 * Cardinality({labels[i] : i \in DOMAIN labels})
    THEN SplitResult("simple", train_test_split(labels, FALSE))
    ELSE LET r == train_test_split(labels, TRUE) IN
         IF IsRaise(r) /\ r.v = "ValueError"
         THEN SplitResult("simple after ValueError", train_test_split(labels, FALSE))
         ELSE SplitResult("stratified", r)

\* a file left by an earlier run
StaleFile == [t |-> "stale", v |-> "None"]

\* json.dump of one part of the split: n of the samples of the list
DataFile(part, n, samples) ==
    [t |-> "json", v |-> [part |-> part, n |-> n, of |-> samples]]

(***************************************************************************)
(* Datasets: at most MaxDialogues dialogues, each well formed or lacking   *)
(* something; LongDialogue has as many user turns as it takes for the      *)
(* stratified split to succeed.                                            *)
(***************************************************************************)
MaxDialogues == 2

LongTurns == 21

\* dialogue_acts of one turn, as the dataset gives them
TurnActs(act) == PyList(<<Record(<<PyStr(act)>>)>>)

\* a dialogue with the three columns of its turns
Dialogue(speaker, utterance, dialogue_acts) ==
    PyDict([dialogue_id |-> PyStr("PMUL0001.json"),
            turns |-> PyDict([speaker |-> speaker, utterance |-> utterance,
                              dialogue_acts |-> dialogue_acts])])

WellFormedDialogue ==
    Dialogue(PyList(<<PyInt(0), PyInt(1), PyInt(0)>>),
             PyList(<<PyStr(" book a room "), PyStr("Which day?"), PyStr(" ok ")>>),
             PyList(<<TurnActs("Hotel-Book"), TurnActs("Booking-Request"),
                      TurnActs("general-thank")>>))

LongDialogue ==
    Dialogue(PyList([i \in 1..LongTurns |-> PyInt(0)]),
             PyList([i \in 1..LongTurns |-> PyStr("find a train")]),
             PyList([i \in 1..LongTurns |-> TurnActs("Train-Inform")]))

\* dialogues that lack something
MalformedDialogues ==
    {PyDict([dialogue_id |-> PyStr("PMUL0002.json")]),
     PyDict([dialogue_id |-> PyStr("PMUL0003.json"), turns |-> PyNone]),
     PyDict([dialogue_id |-> PyStr("PMUL0004.json"),
             turns |-> PyDict([utterance |-> PyList(<<PyStr("thanks a lot")>>),
                               dialogue_acts |-> PyList(<<TurnActs("general-thank")>>)])]),
     PyDict([dialogue_id |-> PyStr("PMUL0005.json"),
             turns |-> PyDict([speaker |-> PyList(<<PyInt(0)>>),
                               utterance |-> PyList(<<PyStr("thanks a lot")>>)])]),
     Dialogue(PyList(<<PyInt(0)>>),
              PyList(<<PyStr("need a taxi"), PyStr("thanks a lot")>>),
              PyList(<<TurnActs("Taxi-Inform"), TurnActs("general-thank")>>)),
     Dialogue(PyList(<<PyInt(0), PyInt(0)>>),
              PyList(<<PyNone, PyStr("thanks a lot")>>),
              PyList(<<PyNone, TurnActs("general-thank")>>)),
     Dialogue(PyList(<<PyInt(0)>>), PyNone, PyList(<<TurnActs("general-thank")>>))}

DialogueKinds == {WellFormedDialogue, LongDialogue} \cup MalformedDialogues

\* the two data files are both absent, or both left by an earlier run
DataDisks ==
    {EmptyDisk,
     [EmptyDisk EXCEPT !["training_data.json"] = StaleFile,
                       !["test_data.json"] = StaleFile]}

ProcessorInit ==
    /\ \/ dataset = [load |-> "error", train |-> <<>>]
       \/ \E ds \in SeqsUpTo(DialogueKinds, MaxDialogues) :
              dataset = [load |-> "ok", train |-> ds]
    /\ dialogue_idx = 0
    /\ training_data = <<>>
    /\ all_samples = <<>>
    /\ split = NoSplit
    /\ ppc = "load"
    /\ perror = ""
    /\ disk \in DataDisks
    /\ TrainerIdle
    /\ TaggerIdle
    /\ IntentIdle
    /\ CorrectorIdle

\* try: dataset = load_dataset(...); train_data = dataset['train']; the
\* debugging block; except Exception: return process_with_local_data()
LoadDataset ==
    /\ ppc = "load"
    /\ ppc' = IF dataset.load = "error" \/ DebugRaises(dataset.train)
              THEN "local" ELSE "loop"
    /\ UNCHANGED <<dataset, dialogue_idx, training_data, all_samples, split, perror, disk,
                   trainerVars, taggerVars, intentVars, correctorVars>>

\* one iteration of "for dialogue_idx, dialogue in enumerate(train_data)"; an
\* exception raised outside the try of the turn loop ends the stage
ProcessDialogue ==
    /\ ppc = "loop"
    /\ perror = ""
    /\ dialogue_idx < Len(dataset.train)
    /\ dialogue_idx < dialogue_limit
    /\ LET r == DialogueSamples(dataset.train[dialogue_idx + 1], intent_mapping) IN
       IF IsRaise(r)
       THEN /\ perror' = r.v
            /\ UNCHANGED <<dialogue_idx, training_data>>
       ELSE /\ training_data' = training_data \o r.v
            /\ dialogue_idx' = dialogue_idx + 1
            /\ perror' = perror
    /\ UNCHANGED <<dataset, all_samples, split, ppc, disk,
                   trainerVars, taggerVars, intentVars, correctorVars>>

\* after the loop: all_samples = training_data + student_samples and the
\* split; ppc = "split" with perror set if the split raises out of the stage
SplitSamples ==
    /\ ppc = "loop"
    /\ perror = ""
    /\ ~(dialogue_idx < Len(dataset.train) /\ dialogue_idx < dialogue_limit)
    /\ all_samples' = training_data \o student_samples
    /\ LET r == SplitStep(all_samples') IN
       IF IsRaise(r)
       THEN perror' = r.v /\ split' = split /\ ppc' = "split"
       ELSE perror' = perror /\ split' = r.v /\ ppc' = "write_train"
    /\ UNCHANGED <<dataset, dialogue_idx, training_data, disk,
                   trainerVars, taggerVars, intentVars, correctorVars>>

\* with open('training_data.json', 'w') as f: json.dump(train_data_split, f, indent=2)
WriteTrainingData ==
    /\ ppc = "write_train"
    /\ disk' = [disk EXCEPT !["training_data.json"] =
                                DataFile("train", split.train, all_samples)]
    /\ ppc' = "write_test"
    /\ UNCHANGED <<dataset, dialogue_idx, training_data, all_samples, split, perror,
                   trainerVars, taggerVars, intentVars, correctorVars>>

\* with open('test_data.json', 'w') as f: json.dump(test_data_split, f, indent=2)
WriteTestData ==
    /\ ppc = "write_test"
    /\ disk' = [disk EXCEPT !["test_data.json"] =
                                DataFile("test", split.test, all_samples)]
    /\ ppc' = "done"
    /\ UNCHANGED <<dataset, dialogue_idx, training_data, all_samples, split, perror,
                   trainerVars, taggerVars, intentVars, correctorVars>>

\* process_with_local_data(): the simple split of its own samples and the
\* two files
ProcessWithLocalData ==
    /\ ppc = "local"
    /\ perror = ""
    /\ all_samples' = multiwoz_samples \o local_student_samples
    /\ LET r == SplitResult("local", train_test_split(LabelsOf(all_samples'), FALSE)) IN
       IF IsRaise(r)
       THEN perror' = r.v /\ UNCHANGED <<split, ppc, disk>>
       ELSE /\ perror' = perror
            /\ split' = r.v
            /\ disk' = [disk EXCEPT
                   !["training_data.json"] = DataFile("train", r.v.train, all_samples'),
                   !["test_data.json"] = DataFile("test", r.v.test, all_samples')]
            /\ ppc' = "done"
    /\ UNCHANGED <<dataset, dialogue_idx, training_data,
                   trainerVars, taggerVars, intentVars, correctorVars>>

ProcessorNext ==
    \/ LoadDataset
    \/ ProcessDialogue
    \/ SplitSamples
    \/ WriteTrainingData
    \/ WriteTestData
    \/ ProcessWithLocalData

SpecProcessor == ProcessorInit /\ [][ProcessorNext]_vars

(***************************************************************************)
(* Properties of the data stage.                                           *)
(***************************************************************************)
\* turn i (from 1) of dialogue d has its three fields, is a user turn and
\* its stripped utterance has at least 5 characters
WellFormedUserTurn(d, i) ==
    /\ IsDict(d) /\ HasKey(d, "turns") /\ IsDict(d.v.turns)
    /\ \A k \in {"speaker", "utterance", "dialogue_acts"} :
           /\ HasKey(d.v.turns, k)
           /\ IsList(d.v.turns.v[k])
           /\ i <= Len(d.v.turns.v[k].v)
    /\ d.v.turns.v.speaker.v[i] = PyInt(0)
    /\ IsStr(d.v.turns.v.utterance.v[i])
    /\ Len(strip(d.v.turns.v.utterance.v[i].v)) >= 5

\* the number of entries of the utterance column of d, 0 if it has none
UtteranceCount(d) ==
    IF /\ IsDict(d) /\ HasKey(d, "turns") /\ IsDict(d.v.turns)
       /\ HasKey(d.v.turns, "utterance") /\ IsList(d.v.turns.v.utterance)
    THEN Len(d.v.turns.v.utterance.v) ELSE 0

RECURSIVE UserTexts(_, _, _)
\* the stripped utterances of the well-formed user turns of the dialogues
\* from k on, from turn i of dialogue k on, in order
UserTexts(ds, k, i) ==
    IF k > Len(ds) THEN <<>>
    ELSE IF i > UtteranceCount(ds[k]) THEN UserTexts(ds, k + 1, 1)
    ELSE (IF WellFormedUserTurn(ds[k], i)
          THEN <<strip(ds[k].v.turns.v.utterance.v[i].v)>> ELSE <<>>)
             \o UserTexts(ds, k, i + 1)

\* the loop over the dialogues is over and the stage goes on
LoopDone == ppc \in {"write_train", "write_test", "done"} /\ split.how # "local"

\* C13: when the dataset loads, dialogues and turns that lack fields are
\* skipped alone: the stage does not abort, does not give up the batch for
\* the local data, and after the loop training_data holds, in order, one
\* sample for every well-formed user turn (speaker 0, stripped utterance of
\* at least 5 characters) of the dialogues.
C13_MalformedSkippedAlone ==
    dataset.load = "ok" =>
        /\ perror = ""
        /\ ppc # "local"
        /\ LoopDone =>
              [i \in DOMAIN training_data |-> training_data[i].text]
                  = UserTexts(dataset.train, 1, 1)

\* the samples of process_with_local_data
LocalSamples == multiwoz_samples \o local_student_samples

\* both data files hold parts of the list samples
FilesFrom(samples) ==
    /\ disk["training_data.json"].t = "json"
    /\ disk["training_data.json"].v.of = samples
    /\ disk["test_data.json"].t = "json"
    /\ disk["test_data.json"].v.of = samples

\* C16: when loading fails and when the extraction yields 0 samples, the
\* finished stage has generated both data files from the samples of
\* process_with_local_data.
C16_LocalFallbackOnNoSamples ==
    (ppc = "done" /\ (dataset.load = "error" \/ training_data = <<>>)) =>
        /\ all_samples = LocalSamples
        /\ FilesFrom(LocalSamples)

\* the number of distinct labels
LabelCount(samples) == Cardinality({samples[i].label : i \in DOMAIN samples})

\* C14: the split of process_multiwoz_for_student_companion never raises out
\* of the stage; with fewer samples than twice the distinct labels it is the
\* simple split; it always gives two non-empty parts that make up the
\* samples, and the finished stage has written both parts.
C14_SplitAlwaysProduced ==
    /\ ppc # "split"
    /\ LoopDone =>
          /\ Len(all_samples) < 2 * LabelCount(all_samples) => split.how = "simple"
          /\ split.train > 0
          /\ split.test > 0
          /\ split.train + split.test = Len(all_samples)
    /\ (ppc = "done" /\ split.how # "local") =>
          /\ FilesFrom(all_samples)
          /\ disk["training_data.json"].v.part = "train"
          /\ disk["training_data.json"].v.n = split.train
          /\ disk["test_data.json"].v.part = "test"
          /\ disk["test_data.json"].v.n = split.test

\* the stratified split raised, the simple one replaced it, both files are
\* written
C14_Witness ==
    /\ ppc = "done"
    /\ split.how = "simple after ValueError"
    /\ FilesFrom(all_samples)
    /\ training_data # <<>>

(***************************************************************************)
(* The training stage: train_student_companion_model (train_model.py).     *)
(* What the library calls compute is left out; which of them raise is an   *)
(* input (lib), and so are the installed versions.                         *)
(***************************************************************************)
RECURSIVE str_split(_, _)
\* s.split(sep), for a separator of one character
str_split(s, sep) ==
    IF ~Contains(s, sep) THEN <<s>>
    ELSE LET p == CHOOSE p \in 0..(Len(s) - 1) :
                      /\ CharAt(s, p) = sep
                      /\ \A q \in 0..(p - 1) : CharAt(s, q) # sep
         IN  <<SubSeq(s, 1, p)>> \o str_split(SubSeq(s, p + 2, Len(s)), sep)

\* int(x) does not raise ValueError, for strings of letters and digits
IsDigits(x) == x # "" /\ \A p \in 0..(Len(x) - 1) : CharAt(x, p) \in DigitChars

RECURSIVE int(_)
\* int(x), for a string of digits
int(x) ==
    IF x = "" THEN 0
    ELSE 10 * int(SubSeq(x, 1, Len(x) - 1))
             + (CHOOSE d \in 0..9 : CharAt("0123456789", d) = CharAt(x, Len(x) - 1))

RECURSIVE TupleLE(_, _)
\* a <= b, for tuples of integers
TupleLE(a, b) ==
    IF a = <<>> THEN TRUE
    ELSE IF b = <<>> THEN FALSE
    ELSE IF a[1] # b[1] THEN a[1] < b[1]
    ELSE TupleLE(Tail(a), Tail(b))

\* a conversion that says nothing when the version is not supported
ConversionError_silent(version, faults) ==
    LET parts == str_split(version, ".")
        bad == {i \in DOMAIN parts : ~IsDigits(parts[i])}
    IN  IF bad # {}
        THEN "invalid literal for int() with base 10: '" \o parts[Min(bad)] \o "'"
        ELSE LET v == [i \in DOMAIN parts |-> int(parts[i])] IN
             IF TupleLE(<<0, 17, 0>>, v) /\ TupleLE(v, <<1, 1, 2>>)
             THEN (IF faults.convert THEN "converter error"
                   ELSE IF faults.save THEN "save error" ELSE "")
             ELSE ""

\* the try block of the conversion: str(e) of the exception it raises, ""
\* if it saves the CoreML model
ConversionError(version, faults) ==
    LET parts == str_split(version, ".")
        bad == {i \in DOMAIN parts : ~IsDigits(parts[i])}
    IN  IF bad # {}
        THEN "invalid literal for int() with base 10: '" \o parts[Min(bad)] \o "'"
        ELSE LET v == [i \in DOMAIN parts |-> int(parts[i])] IN
             IF TupleLE(<<0, 17, 0>>, v) /\ TupleLE(v, <<1, 1, 2>>)
             THEN (IF faults.convert THEN "converter error"
                   ELSE IF faults.save THEN "save error" ELSE "")
             ELSE "Incompatible scikit-learn version"

\* an output file written by this run
OutFile(kind, content) == [t |-> kind, v |-> content]

\* model_info as dumped to model_info.json (input_shape and output_labels
\* come from the fitted vectorizer and are left out)
ModelInfo(version, ct, e) ==
    [sklearn_version |-> version,
     coremltools_version |-> IF ct = "<no __version__>" THEN "unknown" ELSE ct,
     error_message |-> e]

\* a file that is no JSON
GarbageFile == [t |-> "garbage", v |-> "None"]

\* lines 17-36: the two reads, the four lists, the check for labels: the
\* position the stage goes to and the exception that ends it
LoadOutcome(train_file, test_file) ==
    IF train_file.t = "absent" THEN [tpc |-> "returned: missing input", terror |-> ""]
    ELSE IF train_file.t = "garbage" THEN [tpc |-> "load", terror |-> "JSONDecodeError"]
    ELSE IF test_file.t = "absent" THEN [tpc |-> "returned: missing input", terror |-> ""]
    ELSE IF test_file.t = "garbage" THEN [tpc |-> "load", terror |-> "JSONDecodeError"]
    ELSE LET train_data == train_file.v.of
             test_data == test_file.v.of
             items == train_data \o test_data
         IN  IF \E i \in DOMAIN items : {"text", "label"} \ DOMAIN items[i] # {}
             THEN [tpc |-> "load", terror |-> "KeyError"]
             ELSE IF train_data = <<>> \/ test_data = <<>>
             THEN [tpc |-> "returned: no labels", terror |-> ""]
             ELSE [tpc |-> "fit", terror |-> ""]

\* values of sklearn.__version__
Versions == {"1.1.2", "1.1", "0.17.0", "0.17", "0.16.1", "1.1.3", "1.3.0", "1.2.dev0"}

\* contents of a data file when the stage starts: absent, no JSON, or all
\* the samples of a list (none, two, two of which one has no label)
DataInputs(part) ==
    {NoFile, GarbageFile,
     DataFile(part, 0, <<>>),
     DataFile(part, 2, <<student_samples[1], student_samples[2]>>),
     DataFile(part, 2, <<student_samples[1], [text |-> "I need a hotel"]>>)}

\* the output files an earlier run has left: none, those of a run that
\* converted, those of a run that fell back to the pickle
PreviousOutputs ==
    {{},
     {"vocabulary.json", "tfidf_params.json", "StudentCompanionClassifier.mlmodel"},
     {"vocabulary.json", "tfidf_params.json", "student_classifier.pkl", "model_info.json"}}

TrainerInit ==
    /\ sklearn_version \in Versions
    /\ ct_version \in {"6.3", "<no __version__>"}
    /\ lib \in [fit : BOOLEAN, convert : BOOLEAN, save : BOOLEAN]
    /\ conv_error = ""
    /\ tpc = "load"
    /\ terror = ""
    /\ \E train_file \in DataInputs("train"), test_file \in DataInputs("test"),
          previous \in PreviousOutputs :
           disk = [f \in FileNames |->
                      IF f = "training_data.json" THEN train_file
                      ELSE IF f = "test_data.json" THEN test_file
                      ELSE IF f \in previous THEN StaleFile ELSE NoFile]
    /\ ProcessorIdle
    /\ TaggerIdle
    /\ IntentIdle
    /\ CorrectorIdle

\* lines 17-36: load both files, build X and y, return if there are no labels
LoadData ==
    /\ tpc = "load"
    /\ terror = ""
    /\ LET r == LoadOutcome(disk["training_data.json"], disk["test_data.json"]) IN
       tpc' = r.tpc /\ terror' = r.terror
    /\ UNCHANGED <<sklearn_version, ct_version, lib, conv_error, disk,
                   processorVars, taggerVars, intentVars, correctorVars>>

\* lines 39-79: fit the vectorizer and the classifier, evaluate, build vocab_dict
FitAndEvaluate ==
    /\ tpc = "fit"
    /\ terror = ""
    /\ IF lib.fit
       THEN terror' = "ValueError" /\ tpc' = tpc
       ELSE terror' = terror /\ tpc' = "write_vocabulary"
    /\ UNCHANGED <<sklearn_version, ct_version, lib, conv_error, disk,
                   processorVars, taggerVars, intentVars, correctorVars>>

\* with open('vocabulary.json', 'w') as f: json.dump(vocab_dict, f, indent=2)
WriteVocabulary ==
    /\ tpc = "write_vocabulary"
    /\ disk' = [disk EXCEPT !["vocabulary.json"] = OutFile("json", "vocab_dict")]
    /\ tpc' = "write_tfidf"
    /\ UNCHANGED <<sklearn_version, ct_version, lib, conv_error, terror,
                   processorVars, taggerVars, intentVars, correctorVars>>

\* with open('tfidf_params.json', 'w') as f: json.dump(tfidf_params, f, indent=2)
WriteTfidfParams ==
    /\ tpc = "write_tfidf"
    /\ disk' = [disk EXCEPT !["tfidf_params.json"] = OutFile("json", "tfidf_params")]
    /\ tpc' = "convert"
    /\ UNCHANGED <<sklearn_version, ct_version, lib, conv_error, terror,
                   processorVars, taggerVars, intentVars, correctorVars>>

\* lines 96-133: try: the conversion and coreml_model.save; except Exception
\* as e: ... (a save that raises leaves the .mlmodel as it was)
Convert ==
    /\ tpc = "convert"
    /\ conv_error' = ConversionError(sklearn_version, lib)
    /\ IF conv_error' = ""
       THEN /\ disk' = [disk EXCEPT !["StudentCompanionClassifier.mlmodel"] =
                                        OutFile("mlmodel", "classifier")]
            /\ tpc' = "done"
       ELSE /\ disk' = disk
            /\ tpc' = "pickle"
    /\ UNCHANGED <<sklearn_version, ct_version, lib, terror,
                   processorVars, taggerVars, intentVars, correctorVars>>

\* joblib.dump(classifier, 'student_classifier.pkl')
DumpPickle ==
    /\ tpc = "pickle"
    /\ disk' = [disk EXCEPT !["student_classifier.pkl"] = OutFile("pickle", "classifier")]
    /\ tpc' = "model_info"
    /\ UNCHANGED <<sklearn_version, ct_version, lib, conv_error, terror,
                   processorVars, taggerVars, intentVars, correctorVars>>

\* model_info = {...}; with open('model_info.json', 'w') as f: json.dump(model_info, ...)
WriteModelInfo ==
    /\ tpc = "model_info"
    /\ disk' = [disk EXCEPT !["model_info.json"] =
                    OutFile("json", ModelInfo(sklearn_version, ct_version, conv_error))]
    /\ tpc' = "done"
    /\ UNCHANGED <<sklearn_version, ct_version, lib, conv_error, terror,
                   processorVars, taggerVars, intentVars, correctorVars>>

TrainerNext ==
    \/ LoadData
    \/ FitAndEvaluate
    \/ WriteVocabulary
    \/ WriteTfidfParams
    \/ Convert
    \/ DumpPickle
    \/ WriteModelInfo

SpecTrainer == TrainerInit /\ [][TrainerNext]_vars

(***************************************************************************)
(* Properties of the training stage and of the output files.               *)
(***************************************************************************)
\* the versions of Versions that pass the compatibility check, those that
\* fail it, and those that are no dotted integers
SupportedVersions == {"1.1.2", "1.1", "0.17.0"}
UnsupportedVersions == {"0.17", "0.16.1", "1.1.3", "1.3.0"}
UnparsableVersions == {"1.2.dev0"}

\* the conversion step of this run fails
ConversionFails == sklearn_version \notin SupportedVersions \/ lib.convert \/ lib.save

\* the message of the failure
FailureMessage ==
    IF sklearn_version \in UnparsableVersions
    THEN "invalid literal for int() with base 10: 'dev0'"
    ELSE IF sklearn_version \in UnsupportedVersions THEN "Incompatible scikit-learn version"
    ELSE IF lib.convert THEN "converter error"
    ELSE "save error"

\* the stage is past the conversion step
ConversionOver == tpc \in {"pickle", "model_info", "done"}

\* C12: a failure of the conversion step (unsupported or unparsable
\* scikit-learn version, converter error, save error) does not end the
\* stage: it is caught, and the finished stage has written the classifier
\* to student_classifier.pkl and model_info.json with the error message and
\* the scikit-learn and coremltools versions; a finished stage has always
\* saved the classifier, as .mlmodel or as pickle.
C12_ConversionFallback ==
    /\ ConversionOver => terror = ""
    /\ (ConversionOver /\ ConversionFails) => conv_error = FailureMessage
    /\ (tpc = "done" /\ ConversionFails) =>
          /\ disk["student_classifier.pkl"] = OutFile("pickle", "classifier")
          /\ disk["model_info.json"].t = "json"
          /\ disk["model_info.json"].v.error_message = FailureMessage
          /\ disk["model_info.json"].v.sklearn_version = sklearn_version
          /\ disk["model_info.json"].v.coremltools_version =
                 (IF ct_version = "<no __version__>" THEN "unknown" ELSE ct_version)
    /\ tpc = "done" =>
          \/ disk["student_classifier.pkl"].t = "pickle"
          \/ disk["StudentCompanionClassifier.mlmodel"].t = "mlmodel"

\* a run with an unparsable version has finished with the pickle and the
\* diagnostic
C12_Witness ==
    /\ tpc = "done"
    /\ sklearn_version \in UnparsableVersions
    /\ disk["student_classifier.pkl"].t = "pickle"
    /\ disk["model_info.json"].t = "json"
    /\ disk["model_info.json"].v.error_message # ""

\* the files a stage writes
TrainerOutputs == FileNames \ {"training_data.json", "test_data.json"}
DataOutputs == {"training_data.json", "test_data.json"}

\* the files of the set that this run has written
Written(files) == {f \in files : disk[f].t \notin {"absent", "stale"}}

\* no file of the set is left from an earlier run beside one of this run
NotMixed(files) == Written(files) = {} \/ \A f \in files : disk[f].t # "stale"

\* C11: in both stages, a stage that ends with an error (an exception, a
\* missing input file, no labels) has written no output file; an output file
\* is written only when every step that can fail is over (in the training
\* stage the conversion, in the data stage the split); and a stage that has
\* ended leaves no mix of files of this run and files of an earlier run.
C11_OutputsOnlyAfterFallibleSteps ==
    /\ tpc # "idle" =>
          /\ (terror # "" \/ tpc \in {"returned: missing input", "returned: no labels"})
                 => Written(TrainerOutputs) = {}
          /\ Written(TrainerOutputs) # {} => ConversionOver
          /\ tpc = "done" => NotMixed(TrainerOutputs)
    /\ ppc # "idle" =>
          /\ perror # "" => Written(DataOutputs) = {}
          /\ Written(DataOutputs) # {} => ppc \in {"write_test", "done"}
          /\ ppc = "done" => NotMixed(DataOutputs)

====
